---- MODULE Spec2Model ----
(***************************************************************************)
(* Model of scripts/update-games.py: fetch a denylist and a catalog of     *)
(* detectable applications, filter the catalog by the denylist, pick one   *)
(* win32 executable per application and write games.v2.json.               *)
(*                                                                         *)
(* Strings the script inspects character by character (denylist text,      *)
(* game names) are sequences of one-character strings.  JSON objects are   *)
(* functions whose DOMAIN is the set of keys present, so a missing key is  *)
(* a key outside DOMAIN and d["k"] on it raises KeyError.                  *)
(***************************************************************************)
EXTENDS Integers, Sequences, FiniteSets, TLC

VARIABLES
    pc,               \* next statement of the script
    remoteBadwords,   \* body served at BADWORDS_URL
    remoteDetectable, \* JSON array served at URL
    prior,            \* games.v2.json as it was before the run
    file,             \* games.v2.json now
    badwords,         \* the script's badwords list
    detectable,       \* the script's detectable list
    games,            \* the script's games list
    filtered,         \* the script's filtered counter
    i,                \* number of catalog records the for loop has finished
    out,              \* lines printed to stdout
    exc,              \* the uncaught exception that ended the run, or "none"
    stages            \* the stages the run has entered, in order

vars == <<pc, remoteBadwords, remoteDetectable, prior, file, badwords,
          detectable, games, filtered, i, out, exc, stages>>

-----------------------------------------------------------------------------
(* Bounds of the input sets.                                               *)

MaxText == 4

MaxExes == 3

MaxRecords == 3

MaxExesKeys == 2

-----------------------------------------------------------------------------
(* str.lower, str.strip, str.splitlines and the `in` substring test.       *)

LowerChar(c) ==
    CASE c = "A" -> "a"
      [] c = "B" -> "b"
      [] OTHER -> c

Lower(s) == [k \in 1..Len(s) |-> LowerChar(s[k])]

IsSpace(c) == c \in {" ", "\n"}

RECURSIVE LStrip(_)
LStrip(s) ==
    IF s = <<>> THEN <<>>
    ELSE IF IsSpace(Head(s)) THEN LStrip(Tail(s))
    ELSE s

RECURSIVE RStrip(_)
RStrip(s) ==
    IF s = <<>> THEN <<>>
    ELSE IF IsSpace(s[Len(s)]) THEN RStrip(SubSeq(s, 1, Len(s) - 1))
    ELSE s

Strip(s) == RStrip(LStrip(s))

RECURSIVE SplitFrom(_, _, _)
SplitFrom(s, cur, k) ==
    IF k > Len(s) THEN (IF cur = <<>> THEN <<>> ELSE <<cur>>)
    ELSE IF s[k] = "\n" THEN <<cur>> \o SplitFrom(s, <<>>, k + 1)
    ELSE SplitFrom(s, Append(cur, s[k]), k + 1)

SplitLines(s) == SplitFrom(s, <<>>, 1)

\* word in name_lower
Contains(word, name) ==
    \E o \in 0..(Len(name) - Len(word)) :
        SubSeq(name, o + 1, o + Len(word)) = word

-----------------------------------------------------------------------------
(* badwords = [line.strip().lower() for line in ... if line.strip()]       *)

KeepLine_NoFilter(line) == TRUE

KeepLine(line) == Strip(line) # <<>>

RECURSIVE BuildFrom(_, _)
BuildFrom(lines, k) ==
    IF k > Len(lines) THEN <<>>
    ELSE IF KeepLine(lines[k])
         THEN <<Lower(Strip(lines[k]))>> \o BuildFrom(lines, k + 1)
         ELSE BuildFrom(lines, k + 1)

BuildBadwords(text) == BuildFrom(SplitLines(text), 1)

-----------------------------------------------------------------------------
(* The body of the for loop, as a function of one record.                  *)

HasKey(d, k) == k \in DOMAIN d

KeyError == [kind |-> "KeyError"]

\* any(word in name_lower for word in badwords)
AnyBadword(name_lower, bw) ==
    \E j \in 1..Len(bw) : Contains(bw[j], name_lower)

\* filtered += 1
CountFiltered_PerWord(n, name_lower, bw) ==
    n + Cardinality({j \in 1..Len(bw) : Contains(bw[j], name_lower)})

CountFiltered(n, name_lower, bw) == n + 1

\* any(x["os"] == "win32" for x in game["executables"])
RECURSIVE AnyWin32From(_, _)
AnyWin32From(exes, k) ==
    IF k > Len(exes) THEN "False"
    ELSE IF ~HasKey(exes[k], "os") THEN "KeyError"
    ELSE IF exes[k].os = "win32" THEN "True"
    ELSE AnyWin32From(exes, k + 1)

AnyWin32_Always(exes) == "True"

AnyWin32_Get(exes) ==
    IF \E k \in 1..Len(exes) : HasKey(exes[k], "os") /\ exes[k].os = "win32"
    THEN "True" ELSE "False"

AnyWin32(exes) == AnyWin32From(exes, 1)

\* next((x for x in exes if x["os"] == "win32" and not x["is_launcher"]), None)
RECURSIVE NextNonLauncherFrom(_, _)
NextNonLauncherFrom(exes, k) ==
    IF k > Len(exes) THEN [kind |-> "None"]
    ELSE IF ~HasKey(exes[k], "os") THEN KeyError
    ELSE IF exes[k].os # "win32" THEN NextNonLauncherFrom(exes, k + 1)
    ELSE IF ~HasKey(exes[k], "is_launcher") THEN KeyError
    ELSE IF ~exes[k].is_launcher THEN [kind |-> "found", at |-> k]
    ELSE NextNonLauncherFrom(exes, k + 1)

\* next((x for x in exes if x["os"] == "win32"), None)
RECURSIVE NextWin32From(_, _)
NextWin32From(exes, k) ==
    IF k > Len(exes) THEN [kind |-> "None"]
    ELSE IF ~HasKey(exes[k], "os") THEN KeyError
    ELSE IF exes[k].os = "win32" THEN [kind |-> "found", at |-> k]
    ELSE NextWin32From(exes, k + 1)

NextNonLauncher_AnyWin32(exes) == NextWin32From(exes, 1)

NextNonLauncher(exes) == NextNonLauncherFrom(exes, 1)

NextWin32_First(exes) ==
    IF exes = <<>> THEN [kind |-> "None"] ELSE [kind |-> "found", at |-> 1]

NextWin32_NonLauncher(exes) == NextNonLauncherFrom(exes, 1)

NextWin32(exes) == NextWin32From(exes, 1)

\* lines 43-62 for a record that passed the denylist check
SelectExe(game) ==
    IF ~HasKey(game, "executables") THEN KeyError
    ELSE
      LET exes == game.executables
          any  == AnyWin32(exes)
      IN  IF any = "KeyError" THEN KeyError
          ELSE IF any = "False" THEN [kind |-> "skipped"]
          ELSE
            LET first == NextNonLauncher(exes)
                exe   == IF first.kind = "None" THEN NextWin32(exes) ELSE first
            IN  IF exe.kind = "KeyError" THEN KeyError
                ELSE IF exe.kind = "None"
                     THEN [kind |-> "warn", name |-> game.name]
                ELSE IF ~HasKey(exes[exe.at], "name") THEN KeyError
                ELSE [kind  |-> "emit",
                      entry |-> [name |-> game.name,
                                 exe  |-> exes[exe.at].name]]

\* lines 39-62: what one iteration does with the record
GameStep(game, bw) ==
    IF ~HasKey(game, "name") THEN KeyError
    ELSE IF AnyBadword(Lower(game.name), bw) THEN [kind |-> "filtered"]
    ELSE SelectExe(game)

\* games.append(...)
AppendGame_Front(gs, entry) == <<entry>> \o gs

AppendGame(gs, entry) == Append(gs, entry)

-----------------------------------------------------------------------------
(* games.v2.json                                                           *)

NoFile == [exists |-> FALSE, complete |-> FALSE, body |-> <<>>]

OldFile ==
    [exists |-> TRUE, complete |-> TRUE,
     body |-> <<[name |-> <<"o">>, exe |-> "old.exe"]>>]

\* open("w") creates the file or truncates it to nothing
Truncated == [exists |-> TRUE, complete |-> FALSE, body |-> <<>>]

PriorFiles == {NoFile, OldFile}

-----------------------------------------------------------------------------
(* Input sets.                                                             *)

TextChars == {"a", "B", " ", "\n"}

SeqsUpTo(S, n) == UNION {[1..m -> S] : m \in 0..n}

Texts == SeqsUpTo(TextChars, MaxText)

WellFormedExes ==
    [os : {"win32", "darwin"}, name : {"a.exe", "b.exe"}, is_launcher : BOOLEAN]

Game(n, exes) == [name |-> n, executables |-> exes]

W(n, l) == [os |-> "win32", name |-> n, is_launcher |-> l]

D(n) == [os |-> "darwin", name |-> n, is_launcher |-> FALSE]

\* Spec: catalogs of up to MaxRecords records over a few names and
\* executable lists, a few denylists
MainTexts == {<<>>, <<"b">>, <<"a", "\n", "b">>}

MainRecords ==
    {Game(n, e) : n \in {<<"a", "B">>, <<"c">>},
                  e \in {<<D("m")>>, <<W("a.exe", FALSE)>>,
                         <<D("m"), W("b.exe", TRUE)>>}}

MainCatalogs == SeqsUpTo(MainRecords, MaxRecords)

\* SpecSel: a record with any list of up to MaxExes well-formed executables,
\* followed by a launcher-only record
SelTexts == {<<>>, <<"b">>}

SelSecond == Game(<<"a">>, <<D("m"), W("b.exe", TRUE)>>)

SelCatalogs ==
    {<<Game(<<"B">>, e), SelSecond>> : e \in SeqsUpTo(WellFormedExes, MaxExes)}

\* SpecDeny: every denylist text of up to MaxText characters
DenyCatalogs ==
    {<<Game(n, <<W("a.exe", FALSE)>>)>> :
        n \in {<<"a">>, <<"B">>, <<"a", "B">>, <<"B", "a">>}}

\* SpecKeys: records and executables with any subset of their keys
PartialExes ==
    {[k \in K |-> x[k]] :
        x \in [os : {"win32", "darwin"}, name : {"a.exe"}, is_launcher : BOOLEAN],
        K \in SUBSET {"os", "name", "is_launcher"}}

PartialRecords ==
    {[k \in K |-> g[k]] :
        g \in {Game(n, e) : n \in {<<"a">>, <<"B">>},
                            e \in SeqsUpTo(PartialExes, MaxExesKeys)},
        K \in SUBSET {"name", "executables"}}

GoodRecord == Game(<<"a">>, <<W("b.exe", FALSE)>>)

KeysTexts == {<<"b">>}

KeysCatalogs == {<<r, GoodRecord>> : r \in PartialRecords}

-----------------------------------------------------------------------------
(* The run.                                                                *)

InitWith(texts, catalogs) ==
    /\ pc = "start"
    /\ remoteBadwords \in texts
    /\ remoteDetectable \in catalogs
    /\ prior \in PriorFiles
    /\ file = prior
    /\ badwords = <<>>
    /\ detectable = <<>>
    /\ games = <<>>
    /\ filtered = 0
    /\ i = 0
    /\ out = <<>>
    /\ exc = "none"
    /\ stages = <<"Idle">>

Init == InitWith(MainTexts, MainCatalogs)

InitSel == InitWith(SelTexts, SelCatalogs)

InitDeny == InitWith(Texts, DenyCatalogs)

InitKeys == InitWith(KeysTexts, KeysCatalogs)

Abort(e) ==
    /\ pc' = "aborted"
    /\ exc' = e
    /\ stages' = Append(stages, "Aborted")

\* lines 1-21: imports and constants, then the first fetch begins
Start_OpensFile ==
    /\ pc = "start"
    /\ pc' = "badwords"
    /\ stages' = Append(stages, "Fetching")
    /\ file' = Truncated
    /\ UNCHANGED <<remoteBadwords, remoteDetectable, prior, badwords,
                   detectable, games, filtered, i, out, exc>>

Start ==
    /\ pc = "start"
    /\ pc' = "badwords"
    /\ stages' = Append(stages, "Fetching")
    /\ UNCHANGED <<remoteBadwords, remoteDetectable, prior, file, badwords,
                   detectable, games, filtered, i, out, exc>>

\* lines 23-27, the fetch and decode succeed
FetchBadwords ==
    /\ pc = "badwords"
    /\ badwords' = BuildBadwords(remoteBadwords)
    /\ pc' = "detectable"
    /\ UNCHANGED <<remoteBadwords, remoteDetectable, prior, file, detectable,
                   games, filtered, i, out, exc, stages>>

\* lines 23-27, urlopen raises or the body is not UTF-8
FetchBadwordsFail ==
    /\ pc = "badwords"
    /\ \E e \in {"URLError", "HTTPError", "UnicodeDecodeError"} : Abort(e)
    /\ UNCHANGED <<remoteBadwords, remoteDetectable, prior, file, badwords,
                   detectable, games, filtered, i, out>>

\* lines 29-36, the fetch, decode and parse succeed
FetchDetectable ==
    /\ pc = "detectable"
    /\ detectable' = remoteDetectable
    /\ games' = <<>>
    /\ filtered' = 0
    /\ pc' = "loop"
    /\ stages' = Append(stages, "Filtering")
    /\ UNCHANGED <<remoteBadwords, remoteDetectable, prior, file, badwords,
                   i, out, exc>>

\* lines 29-33, urlopen raises, the body is not UTF-8 or not JSON
FetchDetectableFail ==
    /\ pc = "detectable"
    /\ \E e \in {"URLError", "HTTPError", "UnicodeDecodeError",
                 "JSONDecodeError"} : Abort(e)
    /\ UNCHANGED <<remoteBadwords, remoteDetectable, prior, file, badwords,
                   detectable, games, filtered, i, out>>

\* lines 38-62, one iteration of the for loop
ProcessGame ==
    /\ pc = "loop"
    /\ i < Len(detectable)
    /\ LET game == detectable[i + 1]
           step == GameStep(game, badwords)
       IN  IF step.kind = "KeyError"
           THEN /\ Abort("KeyError")
                /\ UNCHANGED <<games, filtered, i, out>>
           ELSE /\ i' = i + 1
                /\ games' = IF step.kind = "emit"
                            THEN AppendGame(games, step.entry) ELSE games
                /\ filtered' = IF step.kind = "filtered"
                               THEN CountFiltered(filtered, Lower(game.name),
                                                  badwords)
                               ELSE filtered
                /\ out' = IF step.kind = "warn"
                          THEN Append(out, [kind |-> "warn", name |-> step.name])
                          ELSE out
                /\ UNCHANGED <<pc, exc, stages>>
    /\ UNCHANGED <<remoteBadwords, remoteDetectable, prior, file, badwords,
                   detectable>>

\* line 64, after the last record
LoopExit ==
    /\ pc = "loop"
    /\ i = Len(detectable)
    /\ out' = Append(out, [kind |-> "summary", n |-> filtered])
    /\ pc' = "open"
    /\ stages' = Append(stages, "Writing")
    /\ UNCHANGED <<remoteBadwords, remoteDetectable, prior, file, badwords,
                   detectable, games, filtered, i, exc>>

\* line 66, open("w") succeeds
OpenFile ==
    /\ pc = "open"
    /\ file' = Truncated
    /\ pc' = "dump"
    /\ UNCHANGED <<remoteBadwords, remoteDetectable, prior, badwords,
                   detectable, games, filtered, i, out, exc, stages>>

\* line 66, open("w") raises
OpenFileFail ==
    /\ pc = "open"
    /\ Abort("OSError")
    /\ UNCHANGED <<remoteBadwords, remoteDetectable, prior, file, badwords,
                   detectable, games, filtered, i, out>>

\* line 67, json.dump writes the next entry of games
DumpChunk ==
    /\ pc = "dump"
    /\ Len(file.body) < Len(games)
    /\ file' = [file EXCEPT !.body = Append(@, games[Len(@) + 1])]
    /\ UNCHANGED <<pc, remoteBadwords, remoteDetectable, prior, badwords,
                   detectable, games, filtered, i, out, exc, stages>>

\* line 67, a write raises; the with block closes the file as it is
DumpFail ==
    /\ pc = "dump"
    /\ \E e \in {"OSError", "UnicodeEncodeError"} : Abort(e)
    /\ UNCHANGED <<remoteBadwords, remoteDetectable, prior, file, badwords,
                   detectable, games, filtered, i, out>>

\* lines 66-67, the array is written in full and the with block closes it
CloseFile ==
    /\ pc = "dump"
    /\ Len(file.body) = Len(games)
    /\ file' = [file EXCEPT !.complete = TRUE]
    /\ pc' = "done"
    /\ stages' = Append(stages, "Done")
    /\ UNCHANGED <<remoteBadwords, remoteDetectable, prior, badwords,
                   detectable, games, filtered, i, out, exc>>

Next ==
    \/ Start
    \/ FetchBadwords
    \/ FetchBadwordsFail
    \/ FetchDetectable
    \/ FetchDetectableFail
    \/ ProcessGame
    \/ LoopExit
    \/ OpenFile
    \/ OpenFileFail
    \/ DumpChunk
    \/ DumpFail
    \/ CloseFile

Spec == Init /\ [][Next]_vars

SpecSel == InitSel /\ [][Next]_vars

SpecDeny == InitDeny /\ [][Next]_vars

SpecKeys == InitKeys /\ [][Next]_vars

-----------------------------------------------------------------------------
(* Vocabulary of the properties, stated without the scans of the script.   *)

Range(s) == {s[k] : k \in 1..Len(s)}

Min(S) == CHOOSE k \in S : \A j \in S : k <= j

Max(S) == CHOOSE k \in S : \A j \in S : k >= j

\* w occurs in s at some position
IsSubstring(w, s) ==
    \E p \in 1..(Len(s) + 1) :
        \A q \in 1..Len(w) : p + q - 1 <= Len(s) /\ s[p + q - 1] = w[q]

\* the record's lowercased name contains a token of the built denylist
Denied(g) == \E w \in Range(badwords) : IsSubstring(w, Lower(g.name))

Win32At(exes) == {k \in 1..Len(exes) : exes[k].os = "win32"}

NonLauncherAt(exes) == {k \in Win32At(exes) : ~exes[k].is_launcher}

\* the executable the selection rules name, for a record with a win32 one
Preferred(exes) ==
    IF NonLauncherAt(exes) # {} THEN exes[Min(NonLauncherAt(exes))]
    ELSE exes[Min(Win32At(exes))]

Projected(g) == [name |-> g.name, exe |-> Preferred(g.executables).name]

\* the record the loop is about to process
Current == detectable[i + 1]

InLoop == pc = "loop" /\ i < Len(detectable)

NoWarning == \A k \in 1..Len(out) : out[k].kind # "warn"

Opened == "Writing" \in Range(stages)

-----------------------------------------------------------------------------
(* C1: a record that is not denied and has a win32 non-launcher executable *)
(* is emitted with exe = the name of the first such executable in the      *)
(* record's own order, whatever win32 executables precede or follow it.    *)
C1_FirstNonLauncher ==
    [][(InLoop /\ ~Denied(Current)
          /\ NonLauncherAt(Current.executables) # {})
       => /\ i' = i + 1
          /\ games' = Append(games,
                [name |-> Current.name,
                 exe  |-> Current.executables[
                             Min(NonLauncherAt(Current.executables))].name])
      ]_vars

\* a win32 launcher precedes the chosen executable and another win32
\* non-launcher follows it, each under a different name
C1_Witness ==
    /\ pc = "done"
    /\ LET exes == detectable[1].executables
       IN  /\ Len(exes) = 3
           /\ exes[1].os = "win32" /\ exes[1].is_launcher
           /\ exes[2].os = "win32" /\ ~exes[2].is_launcher
           /\ exes[3].os = "win32" /\ ~exes[3].is_launcher
           /\ exes[1].name # exes[2].name /\ exes[3].name # exes[2].name
           /\ games[1] = [name |-> detectable[1].name, exe |-> exes[2].name]

(* C2: a record that is not denied and whose win32 executables are all     *)
(* launchers (at least one) is emitted with exe = the name of the first    *)
(* win32 executable in the record's order.                                 *)
C2_LauncherFallback ==
    [][(InLoop /\ ~Denied(Current)
          /\ Win32At(Current.executables) # {}
          /\ NonLauncherAt(Current.executables) = {})
       => /\ i' = i + 1
          /\ games' = Append(games,
                [name |-> Current.name,
                 exe  |-> Current.executables[
                             Min(Win32At(Current.executables))].name])
      ]_vars

\* a non-win32 executable comes first, then two win32 launchers under
\* different names
C2_Witness ==
    /\ pc = "done"
    /\ LET exes == detectable[1].executables
       IN  /\ Len(exes) = 3
           /\ exes[1].os # "win32" /\ ~exes[1].is_launcher
           /\ exes[2].os = "win32" /\ exes[2].is_launcher
           /\ exes[3].os = "win32" /\ exes[3].is_launcher
           /\ exes[1].name # exes[2].name /\ exes[3].name # exes[2].name
           /\ games[1] = [name |-> detectable[1].name, exe |-> exes[2].name]

(* C3: a record with no win32 executable (an empty list included) emits    *)
(* no entry and prints no warning, the loop goes on to the next record,    *)
(* and unless its name matches the denylist the counter is unchanged.      *)
C3_NoWin32Skipped ==
    [][(InLoop /\ Win32At(Current.executables) = {})
       => /\ games' = games
          /\ out' = out
          /\ pc' = "loop" /\ i' = i + 1 /\ exc' = "none"
          /\ (~Denied(Current) => filtered' = filtered)
      ]_vars

\* an undenied record with only non-win32 executables was passed over and
\* the next record was still processed
C3_Witness ==
    /\ pc = "done"
    /\ Len(detectable[1].executables) = 2
    /\ Win32At(detectable[1].executables) = {}
    /\ ~Denied(detectable[1])
    /\ filtered = 0
    /\ games = <<Projected(detectable[2])>>
    /\ out = <<[kind |-> "summary", n |-> 0]>>

(* C10: the warning branch is never taken on a well-formed catalog: no     *)
(* warning is printed, every processed record is filtered, skipped for     *)
(* lack of a win32 executable or emitted once, so that output + filtered + *)
(* skipped = records processed (all of them once the loop is over), and    *)
(* every emitted exe names a win32 executable of its own record.           *)
C10_WarningUnreachable ==
    /\ NoWarning
    /\ Len(games) + filtered
         + Cardinality({k \in 1..i : /\ ~Denied(detectable[k])
                                     /\ Win32At(detectable[k].executables) = {}})
       = i
    /\ (Opened => i = Len(detectable))
    /\ \A j \in 1..Len(games) :
          \E k \in 1..i :
             /\ detectable[k].name = games[j].name
             /\ \E x \in Range(detectable[k].executables) :
                   x.os = "win32" /\ x.name = games[j].exe

\* a record whose win32 executables are all launchers, the case that would
\* warn if the fallback found nothing, was emitted
C10_Witness ==
    /\ pc = "done"
    /\ Len(detectable[1].executables) = 3
    /\ Cardinality(Win32At(detectable[1].executables)) = 2
    /\ NonLauncherAt(detectable[1].executables) = {}
    /\ ~Denied(detectable[1])
    /\ Len(games) = 2
    /\ out = <<[kind |-> "summary", n |-> 0]>>

-----------------------------------------------------------------------------
(* The records of the processed prefix that are emitted, and the place of  *)
(* each in the output.                                                     *)

EmittedAt ==
    {k \in 1..i : /\ ~Denied(detectable[k])
                  /\ Win32At(detectable[k].executables) # {}}

Rank(S, k) == Cardinality({j \in S : j <= k})

(* C4: a record whose lowercased name contains a denylist token is never   *)
(* emitted; the counter is the number of processed records with such a     *)
(* name, one per record whatever its executables and however many tokens   *)
(* match, over the whole catalog once the loop is over; with an empty      *)
(* denylist the counter is 0 and nothing is excluded.                      *)
C4_FilteredCount ==
    /\ filtered = Cardinality({k \in 1..i : Denied(detectable[k])})
    /\ (Opened => i = Len(detectable))
    /\ \A j \in 1..Len(games) :
          ~\E w \in Range(badwords) : IsSubstring(w, Lower(games[j].name))
    /\ (badwords = <<>> => filtered = 0 /\ Len(games) = Cardinality(
          {k \in 1..i : Win32At(detectable[k].executables) # {}}))

\* two tokens match the same name, a denied record with and one without a
\* win32 executable were counted once each, and a third record was emitted
C4_Witness ==
    /\ pc = "done"
    /\ Len(detectable) = 3
    /\ Len(badwords) = 2
    /\ \E k \in 1..3 : /\ \A w \in Range(badwords) :
                             IsSubstring(w, Lower(detectable[k].name))
                       /\ Win32At(detectable[k].executables) # {}
    /\ \E k \in 1..3 : /\ Denied(detectable[k])
                       /\ Win32At(detectable[k].executables) = {}
    /\ filtered = 2
    /\ Len(games) = 1

(* C5: after every prefix of the loop the output is the processed prefix   *)
(* restricted to the emitted records, in catalog order: one entry per      *)
(* emitted record, at the rank of its record among the emitted ones, with  *)
(* the record's name unchanged; as the entry at a rank depends on that     *)
(* record alone, later records never remove, replace or reorder entries.   *)
C5_StableOrder ==
    /\ Len(games) = Cardinality(EmittedAt)
    /\ \A k \in EmittedAt :
          games[Rank(EmittedAt, k)] = Projected(detectable[k])

\* the first and third records are emitted with different entries and the
\* second is not emitted
C5_Witness ==
    /\ pc = "done"
    /\ EmittedAt = {1, 3}
    /\ Len(games) = 2
    /\ games[1] # games[2]
    /\ games[1].name = detectable[1].name
    /\ games[2].name = detectable[3].name

FetchErrors ==
    {"URLError", "HTTPError", "UnicodeDecodeError", "JSONDecodeError"}

(* C6: when a fetch fails or the catalog body fails to decode or parse,    *)
(* games.v2.json is neither created nor modified; the file differs from    *)
(* its prior content only after both fetches have succeeded and the whole  *)
(* catalog has been processed.                                             *)
C6_NoWriteOnFetchFailure ==
    /\ (exc \in FetchErrors => file = prior /\ ~Opened)
    /\ (file # prior =>
          /\ Opened
          /\ badwords = BuildBadwords(remoteBadwords)
          /\ detectable = remoteDetectable
          /\ i = Len(detectable))

\* the catalog body did not parse and the existing file is as it was
C6_Witness ==
    /\ pc = "aborted"
    /\ exc = "JSONDecodeError"
    /\ prior = OldFile
    /\ file = OldFile
    /\ remoteDetectable # <<>>

StageOrder == <<"Idle", "Fetching", "Filtering", "Writing", "Done">>

IsPrefix(s, t) == Len(s) <= Len(t) /\ \A k \in 1..Len(s) : s[k] = t[k]

(* C8: the run goes through Idle, Fetching, Filtering/Projecting, Writing, *)
(* Done in that order without repeating a stage, a failure in any stage    *)
(* leads directly to Aborted, and in Aborted games.v2.json holds exactly   *)
(* the content it had before the run.                                      *)
C8_NoPartialWrite ==
    /\ \/ IsPrefix(stages, StageOrder)
       \/ /\ stages[Len(stages)] = "Aborted"
          /\ Len(stages) <= Len(StageOrder)
          /\ IsPrefix(SubSeq(stages, 1, Len(stages) - 1), StageOrder)
    /\ (pc = "aborted" <=> stages[Len(stages)] = "Aborted")
    /\ (pc = "aborted" => file = prior)

-----------------------------------------------------------------------------
(* The denylist text, line by line.  A line starts after position p, where *)
(* p is 0 or the position of a newline, and ends before the next newline.  *)

LineStarts(t) == {0} \cup {k \in 1..Len(t) : t[k] = "\n"}

LineEnd(t, p) == Min({k \in (p + 1)..Len(t) : t[k] = "\n"} \cup {Len(t) + 1})

Inked(t, p) == {k \in (p + 1)..(LineEnd(t, p) - 1) : ~IsSpace(t[k])}

NonBlankLines(t) == {p \in LineStarts(t) : Inked(t, p) # {}}

Token(t, p) == Lower(SubSeq(t, Min(Inked(t, p)), Max(Inked(t, p))))

BadwordsBuilt ==
    pc \in {"detectable", "loop", "open", "dump", "done"}
       \/ "Filtering" \in Range(stages)

(* C9: the built denylist is exactly the non-blank lines of the text, each *)
(* trimmed and lowercased, in line order; no entry is empty, starts or     *)
(* ends with whitespace or holds an uppercase letter; a blank line adds no *)
(* entry, so a record is filtered only when a non-blank line's token       *)
(* occurs in its lowercased name.                                          *)
C9_DenylistBuilt ==
    /\ \A j \in 1..Len(badwords) :
          /\ badwords[j] # <<>>
          /\ ~IsSpace(badwords[j][1])
          /\ ~IsSpace(badwords[j][Len(badwords[j])])
          /\ \A c \in Range(badwords[j]) : c \notin {"A", "B"}
    /\ (BadwordsBuilt =>
          /\ Len(badwords) = Cardinality(NonBlankLines(remoteBadwords))
          /\ \A p \in NonBlankLines(remoteBadwords) :
                badwords[Rank(NonBlankLines(remoteBadwords), p)]
                   = Token(remoteBadwords, p))
    /\ filtered = Cardinality(
          {k \in 1..i :
             \E p \in NonBlankLines(remoteBadwords) :
                IsSubstring(Token(remoteBadwords, p), Lower(detectable[k].name))})

\* a whitespace-only line, then an uppercase token with trailing
\* whitespace; the record matching no token is emitted, not filtered
C9_Witness ==
    /\ pc = "done"
    /\ remoteBadwords = <<" ", "\n", "B", " ">>
    /\ badwords = << <<"b">> >>
    /\ detectable[1].name = <<"a">>
    /\ filtered = 0
    /\ Len(games) = 1

-----------------------------------------------------------------------------
(* Which missing keys an iteration reads.                                  *)

LacksKey(g) ==
    \/ ~HasKey(g, "name")
    \/ ~HasKey(g, "executables")
    \/ /\ HasKey(g, "executables")
       /\ \E x \in Range(g.executables) :
             ~HasKey(x, "os") \/ ~HasKey(x, "name") \/ ~HasKey(x, "is_launcher")

IsWin32(x) == HasKey(x, "os") /\ x.os = "win32"

\* positions the non-launcher scan stops at, and positions it cannot read
Hits(exes) ==
    {k \in 1..Len(exes) : /\ IsWin32(exes[k])
                          /\ HasKey(exes[k], "is_launcher")
                          /\ ~exes[k].is_launcher}

Unreadable(exes) ==
    {k \in 1..Len(exes) : \/ ~HasKey(exes[k], "os")
                          \/ IsWin32(exes[k]) /\ ~HasKey(exes[k], "is_launcher")}

Before(S, T) == \E k \in S : \A j \in T : k < j

\* the lists on which lines 43-62 read a key that is not there
ReadsMissingExe(exes) ==
    LET win == {k \in 1..Len(exes) : IsWin32(exes[k])}
        noOs == {k \in 1..Len(exes) : ~HasKey(exes[k], "os")}
    IN  \/ Before(noOs, win)
        \/ /\ win # {}
           /\ \/ Before(Unreadable(exes), Hits(exes))
              \/ /\ Hits(exes) # {}
                 /\ ~HasKey(exes[Min(Hits(exes))], "name")
              \/ /\ Hits(exes) = {}
                 /\ ~HasKey(exes[Min(win)], "name")

DeniedBy(g, bw) == \E w \in Range(bw) : IsSubstring(w, Lower(g.name))

ReadsMissing(g, bw) ==
    \/ ~HasKey(g, "name")
    \/ /\ HasKey(g, "name")
       /\ ~DeniedBy(g, bw)
       /\ \/ ~HasKey(g, "executables")
          \/ HasKey(g, "executables") /\ ReadsMissingExe(g.executables)

(* C7 as stated: whenever some record of the catalog lacks name or         *)
(* executables, or some executable lacks os, name or is_launcher, the run  *)
(* aborts without writing the file, never completes normally, and no       *)
(* record lacking a key is filtered, skipped or emitted.                   *)
C7_AnyMissingKeyFatal ==
    (\E k \in 1..Len(detectable) : LacksKey(detectable[k]))
       => /\ pc # "done"
          /\ file = prior
          /\ \A k \in 1..i : ~LacksKey(detectable[k])

(* C7 amended: a missing key is fatal exactly when the iteration reads it. *)
(* The loop never gets past a record on which it reads a missing key: the  *)
(* run aborts there with KeyError, never opens the file and never          *)
(* completes; and KeyError is raised on such a record only.                *)
C7_ReadMissingKeyFatal ==
    /\ \A k \in 1..i : ~ReadsMissing(detectable[k], badwords)
    /\ (exc = "KeyError" =>
          /\ pc = "aborted"
          /\ i < Len(detectable)
          /\ ReadsMissing(detectable[i + 1], badwords))
    /\ ((\E k \in 1..Len(detectable) : ReadsMissing(detectable[k], badwords))
          => pc # "done" /\ ~Opened /\ file = prior)

\* the platform check passed on a complete win32 launcher, and the
\* non-launcher scan then met an executable without os
C7_Witness ==
    /\ pc = "aborted"
    /\ exc = "KeyError"
    /\ i = 0
    /\ file = prior
    /\ HasKey(detectable[1], "name") /\ HasKey(detectable[1], "executables")
    /\ LET exes == detectable[1].executables
       IN  /\ Len(exes) = 2
           /\ DOMAIN exes[1] = {"os", "name", "is_launcher"}
           /\ exes[1].os = "win32" /\ exes[1].is_launcher
           /\ ~HasKey(exes[2], "os")

====
